---- MODULE Spec2Model ----
(***************************************************************************)
(* A model of bradfitz/issuemirror: the mirrorissues command (main,        *)
(* writeDiskJSON, the clean* normalizer) and the issuemirror.Root store     *)
(* (paths, NumComments, ForeachIssue, ForeachIssueComment), run against a   *)
(* remote tracker that changes between runs.                                *)
(*                                                                          *)
(* Specifications.  Spec: runs of the command, with crashes, on a mirror    *)
(* that starts empty or as an earlier version of the command left it.       *)
(* SpecR: the same on a mirror that holds an issue stored without a         *)
(* comment count.  SpecW: writeDiskJSON on its own.  SpecN: the Normalizer  *)
(* on its own.  SpecS: ForeachIssue and ForeachIssueComment on their own,   *)
(* on mirror directories that also hold what the program never wrote.       *)
(*                                                                          *)
(* Conventions.  A Go pointer field is a set with at most one element: {}   *)
(* is nil and {x} points to x.  A Go slice is a sequence.  A Go struct is a *)
(* record of such fields.  A path is a record naming its components.  The   *)
(* bytes of a file are [json |-> object, nl |-> trailing newline], or       *)
(* EmptyBytes for a file that was created or truncated and not yet written. *)
(***************************************************************************)
EXTENDS Integers, Sequences, FiniteSets, TLC

(***************************************************************************)
(* Bounds of the model.                                                     *)
(***************************************************************************)
\* issue numbers the remote may use: 1..NumIssues
NumIssues == 2
\* comment ids the remote may use under each issue: 1..MaxComments
MaxComments == 1
\* the remote's clock, and so every remote version, stays within 1..MaxVer
MaxVer == 3
\* the page size of both listings (PerPage: 100 in main), scaled down
PerPage == 1
\* comment ids of the stores that the store's operations are checked on:
\* 1..StoreIDs
StoreIDs == 2

\* fmt.Sprintf("%03d", num%1000): the modulus of the shard directory
ShardMod == 1000

Issues == 1..NumIssues
CommentIDs == 1..MaxComments

\* time.Time{}: the zero time
ZeroTime == 0
\* the wall clock that the filesystem stamps on a file when it is created
\* or written: later than every version the remote has handed out
Now == MaxVer + 1
\* a remote comment that was deleted
Deleted == -1

Min(a, b) == IF a < b THEN a ELSE b

\* *p for a non-nil pointer p
Val(p) == CHOOSE x \in p : TRUE

(***************************************************************************)
(* Record Store paths (issuemirror.go).                                     *)
(***************************************************************************)
\* filepath.Join(string(r), "issues")
IssuesDir == [issues |-> TRUE]

\* filepath.Join(r, "issues", "%03d" of num%1000)
ShardDir(num) == [shard |-> num % ShardMod]

IssueJSONFile(num) == [shard |-> num % ShardMod, json |-> num]

IssueCommentsDir(num) == [shard |-> num % ShardMod, comments |-> num]

IssueCommentFile(issueNum, commentID) ==
    [shard |-> issueNum % ShardMod, comments |-> issueNum, comment |-> commentID]

\* what else a mirror directory may hold.  In a comments directory: a file
\* whose name is not comment-<...>.json, a file comment-<name>.json whose
\* name is no number, a subdirectory.  In a shard directory: a file
\* <name>.json whose name is no number, a directory that is no comments
\* directory of the program's, and a file <num>.json in such a directory.
ForeignFile(issueNum, name) ==
    [shard |-> issueNum % ShardMod, comments |-> issueNum, other |-> name]

BadCommentFile(issueNum, name) ==
    [shard |-> issueNum % ShardMod, comments |-> issueNum, badcomment |-> name]

CommentsSubdir(issueNum, name) ==
    [shard |-> issueNum % ShardMod, comments |-> issueNum, sub |-> name]

BadJSONFile(shard, name) == [shard |-> shard, badjson |-> name]

StrayDir(shard, name) == [shard |-> shard, stray |-> name]

StrayJSONFile(shard, name, num) == [shard |-> shard, stray |-> name, json |-> num]

\* filepath.Dir of a path of the store
Dir(p) ==
    IF "comments" \in DOMAIN p /\ DOMAIN p # {"shard", "comments"}
    THEN [shard |-> p.shard, comments |-> p.comments]
    ELSE IF "stray" \in DOMAIN p /\ DOMAIN p # {"shard", "stray"}
    THEN [shard |-> p.shard, stray |-> p.stray]
    ELSE IF "shard" \in DOMAIN p /\ DOMAIN p # {"shard"}
    THEN [shard |-> p.shard]
    ELSE IssuesDir

\* the directories os.MkdirAll(d) makes sure exist
MkdirAll(ds, d) ==
    ds \cup {d, IssuesDir} \cup (IF "comments" \in DOMAIN d THEN {Dir(d)} ELSE {})

(***************************************************************************)
(* The go-github structs, as far as the program reads or clears them.       *)
(***************************************************************************)
UserStrs ==
    {"AvatarURL", "HTMLURL", "GravatarID", "URL", "EventsURL", "FollowingURL",
     "FollowersURL", "GistsURL", "OrganizationsURL", "ReceivedEventsURL",
     "ReposURL", "StarredURL", "SubscriptionsURL"}
UserFields == UserStrs \cup {"Login"}

LabelStrs == {"URL", "Color"}
LabelFields == LabelStrs \cup {"Name"}

ReactionKinds == {"PlusOne", "MinusOne", "Laugh", "Confused", "Heart", "Hooray"}
ReactionsFields == ReactionKinds \cup {"TotalCount", "URL"}

MilestoneDropped ==
    {"URL", "HTMLURL", "LabelsURL", "State", "Description", "Creator",
     "CreatedAt", "UpdatedAt", "ClosedAt", "DueOn", "OpenIssues", "ClosedIssues"}
MilestoneFields == MilestoneDropped \cup {"Number", "Title"}

IssueStrs == {"URL", "HTMLURL"}
IssueFields ==
    IssueStrs \cup {"Number", "UpdatedAt", "Comments", "User", "Labels",
                    "Reactions", "Assignee", "Assignees", "Milestone"}

CommentStrs == {"URL", "HTMLURL", "IssueURL"}
CommentFields == CommentStrs \cup {"ID", "UpdatedAt", "User", "Reactions"}

(***************************************************************************)
(* The Normalizer (part_000, lines 163-321).  Each operator returns the     *)
(* struct as the Go function leaves it (v) and the Go function's result     *)
(* (cleaned).                                                               *)
(***************************************************************************)
\* mutation of cleanStr: every call is reported
cleanStrEager(r, F) ==
    [v |-> [k \in DOMAIN r |-> IF k \in F THEN {} ELSE r[k]], cleaned |-> TRUE]

\* cleanStr applied to each field of F of struct r: a non-nil field is set
\* to nil and reported
cleanStr(r, F) ==
    [v |-> [k \in DOMAIN r |-> IF k \in F THEN {} ELSE r[k]],
     cleaned |-> \E k \in F : r[k] # {}]

cleanUser(u) ==
    IF u = {} THEN [v |-> u, cleaned |-> FALSE]
    ELSE LET c == cleanStr(Val(u), UserStrs)
         IN [v |-> {c.v}, cleaned |-> c.cleaned]

cleanLabel(l) == cleanStr(l, LabelStrs)

\* the URL is cleared and reported; a zero counter is cleared and not reported
cleanReactions(r) ==
    [v |-> [k \in DOMAIN r |->
              IF k = "URL" THEN {}
              ELSE IF k \in ReactionKinds /\ r[k] = {0} THEN {}
              ELSE r[k]],
     cleaned |-> r.URL # {}]

cleanReactionsPtr(rp) ==
    IF rp = {} THEN [v |-> rp, cleaned |-> FALSE]
    ELSE LET r == Val(rp)
         IN IF r.TotalCount = {} \/ r.TotalCount = {0}
            THEN [v |-> {}, cleaned |-> TRUE]
            ELSE LET c == cleanReactions(r)
                 IN [v |-> {c.v}, cleaned |-> c.cleaned]

cleanIssueMilestone(m) ==
    IF m = {} THEN [v |-> m, cleaned |-> FALSE]
    ELSE LET c == cleanStr(Val(m), MilestoneDropped)
         IN [v |-> {c.v}, cleaned |-> c.cleaned]

cleanIssue(is) ==
    LET user == cleanUser(is.User)
        strs == cleanStr(is, IssueStrs)
        labels == [i \in DOMAIN is.Labels |-> cleanLabel(is.Labels[i])]
        reactions == cleanReactionsPtr(is.Reactions)
        assignee == cleanUser(is.Assignee)
        useless == Len(is.Assignees) = 1
        kept == IF useless THEN << >> ELSE is.Assignees
        assignees == [i \in DOMAIN kept |-> cleanUser({kept[i]})]
        milestone == cleanIssueMilestone(is.Milestone)
    IN [v |-> [strs.v EXCEPT
                 !.User = user.v,
                 !.Labels = [i \in DOMAIN labels |-> labels[i].v],
                 !.Reactions = reactions.v,
                 !.Assignee = assignee.v,
                 !.Assignees = [i \in DOMAIN assignees |-> Val(assignees[i].v)],
                 !.Milestone = milestone.v],
        cleaned |-> \/ user.cleaned
                    \/ strs.cleaned
                    \/ \E i \in DOMAIN labels : labels[i].cleaned
                    \/ reactions.cleaned
                    \/ assignee.cleaned
                    \/ useless
                    \/ \E i \in DOMAIN assignees : assignees[i].cleaned
                    \/ milestone.cleaned]

cleanComment(c) ==
    LET user == cleanUser(c.User)
        reactions == cleanReactionsPtr(c.Reactions)
        strs == cleanStr(c, CommentStrs)
    IN [v |-> [strs.v EXCEPT !.User = user.v, !.Reactions = reactions.v],
        cleaned |-> user.cleaned \/ reactions.cleaned \/ strs.cleaned]

(***************************************************************************)
(* encoding/json on these structs.  Every field is omitempty: a nil         *)
(* pointer and an empty slice leave no key in the object; a pointer to a    *)
(* zero value is written.  Unmarshal of an object gives nil for each key    *)
(* that is missing.                                                         *)
(***************************************************************************)
MarshalFlat(s) == [k \in {x \in DOMAIN s : s[x] # {}} |-> Val(s[k])]

UnmarshalFlat(j, F) == [k \in F |-> IF k \in DOMAIN j THEN {j[k]} ELSE {}]

MarshalUser(u) == MarshalFlat(u)
UnmarshalUser(j) == UnmarshalFlat(j, UserFields)

MarshalLabel(l) == MarshalFlat(l)
UnmarshalLabel(j) == UnmarshalFlat(j, LabelFields)

\* a slice field: omitted when empty, else an array of the elements' objects
MarshalUsers(q) == IF Len(q) = 0 THEN {} ELSE {[i \in DOMAIN q |-> MarshalUser(q[i])]}
UnmarshalUsers(p) ==
    IF p = {} THEN << >> ELSE [i \in DOMAIN Val(p) |-> UnmarshalUser(Val(p)[i])]

MarshalLabels(q) == IF Len(q) = 0 THEN {} ELSE {[i \in DOMAIN q |-> MarshalLabel(q[i])]}
UnmarshalLabels(p) ==
    IF p = {} THEN << >> ELSE [i \in DOMAIN Val(p) |-> UnmarshalLabel(Val(p)[i])]

MarshalReactions(r) == MarshalFlat(r)
UnmarshalReactions(j) == UnmarshalFlat(j, ReactionsFields)

MarshalMilestone(m) ==
    MarshalFlat([m EXCEPT !.Creator = {MarshalUser(u) : u \in @}])
UnmarshalMilestone(j) ==
    [UnmarshalFlat(j, MilestoneFields) EXCEPT !.Creator = {UnmarshalUser(u) : u \in @}]

MarshalIssue(is) ==
    MarshalFlat([is EXCEPT
        !.User = {MarshalUser(u) : u \in @},
        !.Labels = MarshalLabels(@),
        !.Reactions = {MarshalReactions(r) : r \in @},
        !.Assignee = {MarshalUser(u) : u \in @},
        !.Assignees = MarshalUsers(@),
        !.Milestone = {MarshalMilestone(m) : m \in @}])

UnmarshalIssue(j) ==
    [UnmarshalFlat(j, IssueFields) EXCEPT
        !.User = {UnmarshalUser(u) : u \in @},
        !.Labels = UnmarshalLabels(@),
        !.Reactions = {UnmarshalReactions(r) : r \in @},
        !.Assignee = {UnmarshalUser(u) : u \in @},
        !.Assignees = UnmarshalUsers(@),
        !.Milestone = {UnmarshalMilestone(m) : m \in @}]

MarshalComment(c) ==
    MarshalFlat([c EXCEPT
        !.User = {MarshalUser(u) : u \in @},
        !.Reactions = {MarshalReactions(r) : r \in @}])

UnmarshalComment(j) ==
    [UnmarshalFlat(j, CommentFields) EXCEPT
        !.User = {UnmarshalUser(u) : u \in @},
        !.Reactions = {UnmarshalReactions(r) : r \in @}]

\* a file that os.OpenFile created or truncated and nothing was written to
EmptyBytes == [empty |-> TRUE]

\* json.MarshalIndent(v, "", "\t") of an interface value v, which carries
\* its dynamic type: the output of the encoder does not end in a newline
MarshalIndent(v) ==
    [json |-> IF v.type = "Issue" THEN MarshalIssue(v.val) ELSE MarshalComment(v.val),
     nl |-> FALSE]

\* json.Unmarshal of a file's bytes: an error on input that is no JSON value
UnmarshalErr(b) == b = EmptyBytes

(***************************************************************************)
(* State.                                                                   *)
(***************************************************************************)
VARIABLES
    \* the remote tracker: rver[i] is issue i's updated_at (0: no such issue),
    \* rcom[i][c] is comment c's updated_at (0: not yet made, Deleted: deleted),
    \* clock is the latest timestamp the remote has handed out
    rver, rcom, clock,
    \* the filesystem under the mirror's root: files maps each existing file
    \* to [bytes, mtime], dirs is the set of existing directories
    files, dirs,
    \* main: where the run stands, and its locals
    pc, reclean, page, keepGoing, issues, idx,
    \* ForeachIssue's nums and position, and the issue handed to the callback
    nums, nidx, is,
    \* ForeachIssueComment's ids and position
    ids, cidx,
    \* updateComments' page, the comments of that page, the position in it,
    \* and res.NextPage
    cpage, comments, ccidx, nextPage,
    \* the writeDiskJSON call in progress, and the call that has just returned
    w, ret,
    \* how the last run ended: "ok", "fatal" or "crash" ("none" before any)
    exit,
    \* history: the pages of the issue feed this run asked for, the
    \* (issue, page) comment listings it asked for, the files and the
    \* directories when it started, the files when its ForeachIssue started,
    \* for each issue whose comments it has counted the files and directories
    \* at that moment, the strongest run completed since the remote last
    \* changed or a run was last aborted ("none" < "sync" < "reclean"),
    \* whether a run was aborted since the remote last changed, and whether
    \* the mirror started empty and no run was ever aborted
    requested, listCalls, run0, rundirs0, walk0, counted, stable, aborted,
    intact,
    \* for the operations checked on their own: the record handed to the
    \* Normalizer with the results of applying it once and twice; the
    \* identities an iteration of the store has passed to its callback, and
    \* the iteration's result
    norm, calls, result

remoteVars == <<rver, rcom, clock>>
diskVars == <<files, dirs>>
pageVars == <<page, keepGoing, issues, idx>>
walkVars == <<nums, nidx, is, ids, cidx>>
updVars == <<cpage, comments, ccidx, nextPage>>
histVars == <<requested, listCalls, run0, rundirs0, walk0, counted>>
endVars == <<exit, stable, aborted, intact>>
harnessVars == <<norm, calls, result>>
vars == <<rver, rcom, clock, files, dirs, pc, reclean, page, keepGoing, issues,
          idx, nums, nidx, is, ids, cidx, cpage, comments, ccidx, nextPage,
          w, ret, exit, requested, listCalls, run0, rundirs0, walk0, counted,
          stable, aborted, intact, norm, calls, result>>

(***************************************************************************)
(* The Remote Source: what the go-github client returns.                    *)
(***************************************************************************)
RawUser == [k \in UserFields |-> {"x"}]

RawLabel == [k \in LabelFields |-> {"x"}]

RawMilestone ==
    [k \in MilestoneFields |->
        IF k = "Creator" THEN {RawUser}
        ELSE IF k \in {"URL", "HTMLURL", "LabelsURL", "State", "Description", "Title"}
        THEN {"x"}
        ELSE {1}]

\* a reaction summary with one +1 and no other reaction
RawReactions ==
    [k \in ReactionsFields |->
        IF k = "URL" THEN {"x"}
        ELSE IF k \in {"TotalCount", "PlusOne"} THEN {1}
        ELSE {0}]

\* a reaction summary with no reaction at all
NoReactions == [k \in ReactionsFields |-> IF k = "URL" THEN {"x"} ELSE {0}]

RemoteIssues == {i \in Issues : rver[i] > 0}

RemoteComments(i) == {c \in CommentIDs : rcom[i][c] > 0}

\* issue i as the API returns it when its updated_at is t and it has n
\* comments: every URL set, the comment count present
RawIssue(i, t, n) ==
    [Number |-> {i}, UpdatedAt |-> {t}, Comments |-> {n},
     User |-> {RawUser}, URL |-> {"x"}, HTMLURL |-> {"x"},
     Labels |-> <<RawLabel>>, Reactions |-> {RawReactions},
     Assignee |-> {RawUser}, Assignees |-> <<RawUser>>,
     Milestone |-> {RawMilestone}]

\* comment c as the API returns it when its updated_at is t
RawComment(c, t) ==
    [ID |-> {c}, UpdatedAt |-> {t}, User |-> {RawUser},
     Reactions |-> {NoReactions}, URL |-> {"x"}, HTMLURL |-> {"x"},
     IssueURL |-> {"x"}]

RemoteIssue(i) == RawIssue(i, rver[i], Cardinality(RemoteComments(i)))

RemoteComment(i, c) == RawComment(c, rcom[i][c])

\* mutation of SortInts: descending order
SortIntsDesc(S) ==
    [r \in 1..Cardinality(S) |-> CHOOSE x \in S : Cardinality({y \in S : y > x}) = r - 1]

\* the elements of a finite set of integers in ascending order (sort.Ints)
SortInts(S) ==
    [r \in 1..Cardinality(S) |-> CHOOSE x \in S : Cardinality({y \in S : y < x}) = r - 1]

\* Sort "updated", Direction "desc": i comes before j in the feed (issues
\* updated in the same instant: the higher number first)
Before(i, j) == rver[i] > rver[j] \/ (rver[i] = rver[j] /\ i > j)

Feed ==
    [r \in 1..Cardinality(RemoteIssues) |->
        CHOOSE i \in RemoteIssues :
            Cardinality({j \in RemoteIssues : Before(j, i)}) = r - 1]

\* client.Issues.ListByRepo(..., Page: p, PerPage): the issue numbers of page p
ListByRepo(p) == SubSeq(Feed, (p - 1) * PerPage + 1, Min(p * PerPage, Len(Feed)))

\* client.Issues.ListComments(issueNum, Page: p, PerPage): the comment ids of
\* page p, in ascending id order, and res.NextPage (0 on the last page)
ListComments(issueNum, p) ==
    LET all == SortInts(RemoteComments(issueNum))
    IN [comments |-> SubSeq(all, (p - 1) * PerPage + 1, Min(p * PerPage, Len(all))),
        NextPage |-> IF p * PerPage < Len(all) THEN p + 1 ELSE 0]

(***************************************************************************)
(* Record Store reads (issuemirror.go), on a filesystem fs, ds.             *)
(***************************************************************************)
\* os.Stat(file)
Stat(fs, file) ==
    IF file \in DOMAIN fs THEN [err |-> FALSE, ModTime |-> fs[file].mtime]
    ELSE [err |-> TRUE, ModTime |-> ZeroTime]

\* the names in the comments directory of issueNum
CommentNames(fs, issueNum) == {p \in DOMAIN fs : Dir(p) = IssueCommentsDir(issueNum)}

\* the subdirectories of the comments directory of issueNum
CommentSubdirs(ds, issueNum) ==
    {d \in ds : d # IssueCommentsDir(issueNum) /\ Dir(d) = IssueCommentsDir(issueNum)}

\* Readdirnames(-1) counts every name of the directory, whatever it names
NumComments(fs, ds, issueNum) ==
    IF IssueCommentsDir(issueNum) \notin ds
    THEN [n |-> 0, err |-> IssueJSONFile(issueNum) \notin DOMAIN fs]
    ELSE [n |-> Cardinality(CommentNames(fs, issueNum))
                  + Cardinality(CommentSubdirs(ds, issueNum)),
          err |-> FALSE]

\* Root.Issue: the issue read back from its file
Issue(fs, num) ==
    IF IssueJSONFile(num) \notin DOMAIN fs \/ UnmarshalErr(fs[IssueJSONFile(num)].bytes)
    THEN [err |-> TRUE]
    ELSE [err |-> FALSE, is |-> UnmarshalIssue(fs[IssueJSONFile(num)].bytes.json)]

\* Root.IssueComment
IssueComment(fs, issueNum, commentID) ==
    LET f == IssueCommentFile(issueNum, commentID)
    IN IF f \notin DOMAIN fs \/ UnmarshalErr(fs[f].bytes)
       THEN [err |-> TRUE]
       ELSE [err |-> FALSE, c |-> UnmarshalComment(fs[f].bytes.json)]

\* ForeachIssue's walk and sort: the numbers of the <num>.json files of the
\* shard directories, ascending.  A directory below a shard directory is
\* skipped with all it holds (filepath.SkipDir).  An error when the issues
\* directory is missing, or a shard directory holds a .json file whose name
\* is no number.
WalkIssues(fs, ds) ==
    [err |-> \/ IssuesDir \notin ds
             \/ \E p \in DOMAIN fs : DOMAIN p = {"shard", "badjson"},
     nums |-> SortInts({p.json : p \in {q \in DOMAIN fs : DOMAIN q = {"shard", "json"}}})]

\* ForeachIssueComment's walk and sort: the ids of the comment-<id>.json
\* files, ascending; a file of another name is passed over.  A missing
\* comments directory gives no ids and no error.  An error when the
\* directory holds a subdirectory, or a file comment-<name>.json whose name
\* is no number.
WalkComments(fs, ds, issueNum) ==
    IF IssueCommentsDir(issueNum) \notin ds THEN [err |-> FALSE, ids |-> << >>]
    ELSE [err |-> \/ CommentSubdirs(ds, issueNum) # {}
                  \/ \E p \in CommentNames(fs, issueNum) : "badcomment" \in DOMAIN p,
          ids |-> SortInts({p.comment : p \in
                      {q \in CommentNames(fs, issueNum) : "comment" \in DOMAIN q}})]

(***************************************************************************)
(* writeDiskJSON (part_000, lines 323-353).  The call is taken in steps,    *)
(* one per change of the filesystem, because the process can stop between   *)
(* any two of them: the call itself (os.Stat, the two early returns, the    *)
(* encoding, os.MkdirAll), then ioutil.WriteFile's open-and-truncate, then  *)
(* its write, then os.Chtimes and the return.                               *)
(***************************************************************************)
None == [none |-> TRUE]

\* no writeDiskJSON call in progress
WIdle == [stage |-> "idle"]

\* fs with file f holding bytes b, stamped t
Put(fs, f, b, t) ==
    [p \in DOMAIN fs \cup {f} |-> IF p = f THEN [bytes |-> b, mtime |-> t] ELSE fs[p]]

IsZero(t) == t = ZeroTime

\* mutation of StatFails: a missing file is no error
StatFailsNever(fi, modTime) == FALSE

\* lines 325-328: a zero modTime on a file that os.Stat does not find
StatFails(fi, modTime) == IsZero(modTime) /\ fi.err

\* mutation of UpToDate: a file at least as new as modTime is up to date
UpToDateOrNewer(fi, modTime) == ~IsZero(modTime) /\ ~fi.err /\ fi.ModTime >= modTime

\* mutation of UpToDate: the file's time is not compared
UpToDateNever(fi, modTime) == FALSE

\* mutation of UpToDate: "newer on disk" taken for "up to date"
UpToDateAfter(fi, modTime) == ~IsZero(modTime) /\ ~fi.err /\ fi.ModTime > modTime

\* lines 330-332: a non-zero modTime equal to the file's
UpToDate(fi, modTime) == ~IsZero(modTime) /\ ~fi.err /\ fi.ModTime = modTime

\* mutation of ChtimesTime: a zero modTime leaves the time of the write
ChtimesTimeNow(fi, modTime) == IF IsZero(modTime) THEN Now ELSE modTime

\* mutation of ChtimesTime: the file's own time is kept whatever modTime is
ChtimesTimeKept(fi, modTime) == IF fi.err THEN Now ELSE fi.ModTime

\* lines 325-329: the timestamp os.Chtimes is given
ChtimesTime(fi, modTime) == IF IsZero(modTime) THEN fi.ModTime ELSE modTime

\* lines 334-340: the encoding, with a newline appended when it ends in none
FileBytes(v) ==
    LET j == MarshalIndent(v)
    IN IF ~j.nl THEN [j EXCEPT !.nl = TRUE] ELSE j

\* what a returned call reports: its arguments, its results, and the
\* filesystem as the call found it
Returned(file, modTime, v, wrote, err, fs0, ds0) ==
    [file |-> file, modTime |-> modTime, v |-> v, wrote |-> wrote, err |-> err,
     files0 |-> fs0, dirs0 |-> ds0]

\* lines 323-343: the call up to and including os.MkdirAll
writeDiskJSON(file, modTime, v) ==
    LET fi == Stat(files, file)
    IN IF StatFails(fi, modTime) \/ UpToDate(fi, modTime)
       THEN /\ ret' = Returned(file, modTime, v, FALSE, StatFails(fi, modTime),
                               files, dirs)
            /\ UNCHANGED <<files, dirs, w>>
       ELSE /\ w' = [stage |-> "open", file |-> file, arg |-> modTime,
                     modTime |-> ChtimesTime(fi, modTime), v |-> v,
                     j |-> FileBytes(v), files0 |-> files, dirs0 |-> dirs]
            /\ dirs' = MkdirAll(dirs, Dir(file))
            /\ UNCHANGED <<files, ret>>

\* line 344, ioutil.WriteFile: os.OpenFile with O_CREATE|O_TRUNC
WriteFileOpen ==
    /\ w.stage = "open"
    /\ files' = Put(files, w.file, EmptyBytes, Now)
    /\ w' = [w EXCEPT !.stage = "write"]
    /\ UNCHANGED <<remoteVars, dirs, pc, reclean, pageVars, walkVars, updVars,
                   ret, histVars, endVars, harnessVars>>

\* line 344, ioutil.WriteFile: the write of the bytes
WriteFileWrite ==
    /\ w.stage = "write"
    /\ files' = Put(files, w.file, w.j, Now)
    /\ w' = [w EXCEPT !.stage = "chtimes"]
    /\ UNCHANGED <<remoteVars, dirs, pc, reclean, pageVars, walkVars, updVars,
                   ret, histVars, endVars, harnessVars>>

\* lines 347-352: os.Chtimes and the return of (true, nil)
Chtimes ==
    /\ w.stage = "chtimes"
    /\ files' = Put(files, w.file, files[w.file].bytes, w.modTime)
    /\ ret' = Returned(w.file, w.arg, w.v, TRUE, FALSE, w.files0, w.dirs0)
    /\ w' = WIdle
    /\ UNCHANGED <<remoteVars, dirs, pc, reclean, pageVars, walkVars, updVars,
                   histVars, endVars, harnessVars>>

(***************************************************************************)
(* main (part_000, lines 35-161).                                           *)
(***************************************************************************)
\* the run ends (how: "ok", log.Fatal "fatal", or the process is killed
\* "crash"); the locals of the process are gone
Stop(how) ==
    /\ pc' = "idle"
    /\ exit' = how
    /\ stable' = IF how # "ok" THEN "none"
                 ELSE IF reclean \/ stable = "reclean" THEN "reclean" ELSE "sync"
    /\ aborted' = (aborted \/ how # "ok")
    /\ intact' = (intact /\ how = "ok")
    /\ page' = 0 /\ keepGoing' = FALSE /\ issues' = << >> /\ idx' = 0
    /\ nums' = << >> /\ nidx' = 0 /\ is' = None /\ ids' = << >> /\ cidx' = 0
    /\ cpage' = 0 /\ comments' = << >> /\ ccidx' = 0 /\ nextPage' = 0
    /\ w' = WIdle /\ ret' = None
    /\ UNCHANGED <<remoteVars, diskVars, reclean, histVars, harnessVars>>

\* the command is started, with or without -reclean (lines 35-64)
StartRun(rc) ==
    /\ pc = "idle"
    /\ pc' = "list"
    /\ reclean' = rc
    /\ page' = 1
    /\ keepGoing' = TRUE
    /\ requested' = << >>
    /\ listCalls' = {}
    /\ counted' = << >>
    /\ run0' = files
    /\ rundirs0' = dirs
    /\ walk0' = files
    /\ UNCHANGED <<remoteVars, diskVars, issues, idx, walkVars, updVars, w, ret,
                   endVars, harnessVars>>

\* lines 65-79, and 91 for a page without issues: one page of the feed
ListPage ==
    /\ pc = "list"
    /\ keepGoing
    /\ requested' = Append(requested, page)
    /\ issues' = ListByRepo(page)
    /\ keepGoing' = FALSE
    /\ idx' = 1
    /\ IF Len(ListByRepo(page)) = 0
       THEN page' = page + 1 /\ pc' = "list"
       ELSE page' = page /\ pc' = "page"
    /\ UNCHANGED <<remoteVars, diskVars, reclean, walkVars, updVars, w, ret,
                   listCalls, run0, rundirs0, walk0, counted, endVars, harnessVars>>

\* lines 80-83: the next issue of the page is cleaned and handed to
\* writeDiskJSON with its own updated_at
WriteIssue ==
    /\ pc = "page"
    /\ LET c == cleanIssue(RemoteIssue(issues[idx]))
       IN writeDiskJSON(IssueJSONFile(Val(c.v.Number)), Val(c.v.UpdatedAt),
                        [type |-> "Issue", val |-> c.v])
    /\ pc' = "wrote"
    /\ UNCHANGED <<remoteVars, reclean, pageVars, walkVars, updVars, histVars,
                   endVars, harnessVars>>

\* mutation of KeepGoing: a write does not make the loop go on
KeepGoingNever(kg, wrote) == kg

\* mutation of KeepGoing: the loop goes on after every page that held an issue
KeepGoingAlways(kg, wrote) == TRUE

\* lines 87-89
KeepGoing(kg, wrote) == kg \/ wrote

\* lines 84-91: writeDiskJSON has returned to the page loop
IssueWritten ==
    /\ pc = "wrote"
    /\ ret # None
    /\ IF ret.err
       THEN Stop("fatal")
       ELSE /\ keepGoing' = KeepGoing(keepGoing, ret.wrote)
            /\ ret' = None
            /\ IF idx < Len(issues)
               THEN idx' = idx + 1 /\ page' = page /\ pc' = "page"
               ELSE idx' = idx /\ page' = page + 1 /\ pc' = "list"
            /\ UNCHANGED <<remoteVars, diskVars, reclean, issues, walkVars, updVars,
                           w, histVars, endVars, harnessVars>>

\* line 124 and ForeachIssue (issuemirror.go, lines 95-123): the page loop is
\* over, the stored issues are walked and their numbers sorted
StartWalk ==
    /\ pc = "list"
    /\ ~keepGoing
    /\ IF WalkIssues(files, dirs).err
       THEN Stop("fatal")
       ELSE /\ nums' = WalkIssues(files, dirs).nums
            /\ nidx' = 1
            /\ walk0' = files
            /\ pc' = "foreach"
            /\ UNCHANGED <<remoteVars, diskVars, reclean, pageVars, is, ids, cidx,
                           updVars, w, ret, requested, listCalls, run0, rundirs0,
                           counted, endVars, harnessVars>>

\* ForeachIssue has no number left (issuemirror.go, line 133): main returns
ForeachDone ==
    /\ pc = "foreach"
    /\ nidx > Len(nums)
    /\ Stop("ok")

\* ForeachIssue loads the next issue (issuemirror.go, lines 124-131) and the
\* callback starts (part_000, lines 125-135): an issue without a comment
\* count is left alone; with -reclean the issue is cleaned and, when that
\* reports a change, rewritten with the zero time
LoadIssue ==
    /\ pc = "foreach"
    /\ nidx <= Len(nums)
    /\ LET r == Issue(files, nums[nidx])
       IN IF r.err
          THEN Stop("fatal")
          ELSE IF r.is.Comments = {}
          THEN /\ nidx' = nidx + 1
               /\ UNCHANGED <<remoteVars, diskVars, pc, reclean, pageVars, nums, is,
                              ids, cidx, updVars, w, ret, histVars, endVars, harnessVars>>
          ELSE IF ~reclean
          THEN /\ is' = r.is
               /\ pc' = "count"
               /\ UNCHANGED <<remoteVars, diskVars, reclean, pageVars, nums, nidx,
                              ids, cidx, updVars, w, ret, histVars, endVars, harnessVars>>
          ELSE IF ~cleanIssue(r.is).cleaned
                  /\ WalkComments(files, dirs, Val(r.is.Number)).err
          THEN Stop("fatal")
          ELSE LET c == cleanIssue(r.is)
               IN /\ is' = c.v
                  /\ IF c.cleaned
                     THEN /\ writeDiskJSON(IssueJSONFile(Val(c.v.Number)), ZeroTime,
                                           [type |-> "Issue", val |-> c.v])
                          /\ pc' = "recleaned"
                          /\ UNCHANGED <<ids, cidx>>
                     ELSE /\ ids' = WalkComments(files, dirs, Val(c.v.Number)).ids
                          /\ cidx' = 1
                          /\ pc' = "comments"
                          /\ UNCHANGED <<diskVars, w, ret>>
                  /\ UNCHANGED <<remoteVars, reclean, pageVars, nums, nidx, updVars,
                                 histVars, endVars, harnessVars>>

\* lines 131-136: the zero-time write of the issue has returned;
\* ForeachIssueComment walks the issue's comments (issuemirror.go, 139-170)
RecleanIssueWritten ==
    /\ pc = "recleaned"
    /\ ret # None
    /\ IF ret.err \/ WalkComments(files, dirs, Val(is.Number)).err
       THEN Stop("fatal")
       ELSE /\ ret' = None
            /\ ids' = WalkComments(files, dirs, Val(is.Number)).ids
            /\ cidx' = 1
            /\ pc' = "comments"
            /\ UNCHANGED <<remoteVars, diskVars, reclean, pageVars, nums, nidx, is,
                           updVars, w, histVars, endVars, harnessVars>>

\* ForeachIssueComment loads the next comment (issuemirror.go, lines 171-179)
\* and its callback (part_000, lines 136-143) cleans it and, when that
\* reports a change, rewrites it with the zero time
RecleanComment ==
    /\ pc = "comments"
    /\ cidx <= Len(ids)
    /\ LET r == IssueComment(files, Val(is.Number), ids[cidx])
       IN IF r.err
          THEN Stop("fatal")
          ELSE LET c == cleanComment(r.c)
               IN /\ IF c.cleaned
                     THEN /\ writeDiskJSON(
                                IssueCommentFile(Val(is.Number), Val(c.v.ID)),
                                ZeroTime, [type |-> "IssueComment", val |-> c.v])
                          /\ pc' = "ccleaned"
                          /\ cidx' = cidx
                     ELSE /\ cidx' = cidx + 1
                          /\ UNCHANGED <<diskVars, w, ret, pc>>
                  /\ UNCHANGED <<remoteVars, reclean, pageVars, nums, nidx, is, ids,
                                 updVars, histVars, endVars, harnessVars>>

\* lines 138-143: the zero-time write of the comment has returned
RecleanCommentWritten ==
    /\ pc = "ccleaned"
    /\ ret # None
    /\ IF ret.err
       THEN Stop("fatal")
       ELSE /\ ret' = None
            /\ cidx' = cidx + 1
            /\ pc' = "comments"
            /\ UNCHANGED <<remoteVars, diskVars, reclean, pageVars, nums, nidx, is,
                           ids, updVars, w, histVars, endVars, harnessVars>>

\* mutation of SameCount: only a surplus on disk counts as the same
SameCountOrMore(onDisk, numComments) == onDisk > numComments

\* line 154
SameCount(onDisk, numComments) == onDisk = numComments

\* lines 148-157: the comments on disk are counted and compared with the
\* count the stored issue declares; updateComments is called when they differ
Reconcile ==
    /\ pc = "count" \/ (pc = "comments" /\ cidx > Len(ids))
    /\ LET numComments == Val(is.Comments)
           onDisk == NumComments(files, dirs, Val(is.Number))
       IN IF onDisk.err
          THEN Stop("fatal")
          ELSE /\ IF SameCount(onDisk.n, numComments)
                  THEN /\ nidx' = nidx + 1
                       /\ pc' = "foreach"
                       /\ cpage' = cpage
                  ELSE /\ cpage' = 1
                       /\ pc' = "listc"
                       /\ nidx' = nidx
               /\ counted' = (Val(is.Number) :> [files |-> files, dirs |-> dirs])
                                 @@ counted
               /\ UNCHANGED <<remoteVars, diskVars, reclean, pageVars, nums, is, ids,
                              cidx, comments, ccidx, nextPage, w, ret,
                              requested, listCalls, run0, rundirs0, walk0, endVars, harnessVars>>

\* updateComments, lines 96-105, and 116-120 for a page without comments
ListCommentsPage ==
    /\ pc = "listc"
    /\ LET r == ListComments(Val(is.Number), cpage)
       IN /\ listCalls' = listCalls \cup {<<Val(is.Number), cpage>>}
          /\ comments' = r.comments
          /\ nextPage' = r.NextPage
          /\ ccidx' = 1
          /\ IF Len(r.comments) > 0
             THEN pc' = "comment" /\ UNCHANGED <<cpage, nidx>>
             ELSE IF r.NextPage = 0
             THEN pc' = "foreach" /\ nidx' = nidx + 1 /\ cpage' = cpage
             ELSE pc' = "listc" /\ cpage' = r.NextPage /\ nidx' = nidx
    /\ UNCHANGED <<remoteVars, diskVars, reclean, pageVars, nums, is, ids, cidx,
                   w, ret, requested, run0, rundirs0, walk0, counted, endVars, harnessVars>>

\* updateComments, lines 106-111: the next comment of the page is cleaned
\* and handed to writeDiskJSON with its own updated_at
WriteComment ==
    /\ pc = "comment"
    /\ LET c == cleanComment(RemoteComment(Val(is.Number), comments[ccidx]))
       IN writeDiskJSON(IssueCommentFile(Val(is.Number), Val(c.v.ID)),
                        Val(c.v.UpdatedAt), [type |-> "IssueComment", val |-> c.v])
    /\ pc' = "cwrote"
    /\ UNCHANGED <<remoteVars, reclean, pageVars, walkVars, updVars, histVars,
                   endVars, harnessVars>>

\* updateComments, lines 112-121: writeDiskJSON has returned to the loop over
\* the page; after the last comment the next page is res.NextPage, and 0 ends
CommentWritten ==
    /\ pc = "cwrote"
    /\ ret # None
    /\ IF ret.err
       THEN Stop("fatal")
       ELSE /\ ret' = None
            /\ IF ccidx < Len(comments)
               THEN pc' = "comment" /\ ccidx' = ccidx + 1 /\ UNCHANGED <<cpage, nidx>>
               ELSE IF nextPage = 0
               THEN pc' = "foreach" /\ nidx' = nidx + 1 /\ UNCHANGED <<cpage, ccidx>>
               ELSE pc' = "listc" /\ cpage' = nextPage /\ UNCHANGED <<ccidx, nidx>>
            /\ UNCHANGED <<remoteVars, diskVars, reclean, pageVars, nums, is, ids,
                           cidx, comments, nextPage, w, histVars, endVars, harnessVars>>

\* the process is killed, or an I/O error makes it exit, at any point of a run
Crash ==
    /\ pc \notin {"idle", "harness"}
    /\ Stop("crash")

(***************************************************************************)
(* The remote changes, between runs.  Every change is stamped with a new    *)
(* tick of the remote's clock.                                              *)
(***************************************************************************)
\* the remote is no longer the one the earlier runs saw
RemoteChanged ==
    /\ exit' = "none"
    /\ stable' = "none"
    /\ aborted' = FALSE
    /\ UNCHANGED <<diskVars, pc, reclean, pageVars, walkVars, updVars, w, ret,
                   histVars, harnessVars, intact>>

\* issue i is opened or edited
TouchIssue(i) ==
    /\ pc = "idle"
    /\ clock < MaxVer
    /\ clock' = clock + 1
    /\ rver' = [rver EXCEPT ![i] = clock + 1]
    /\ UNCHANGED rcom
    /\ RemoteChanged

\* comment c is added to issue i, which counts as an update of the issue
AddComment(i, c) ==
    /\ pc = "idle"
    /\ clock < MaxVer
    /\ rver[i] > 0
    /\ rcom[i][c] = 0
    /\ clock' = clock + 1
    /\ rcom' = [rcom EXCEPT ![i][c] = clock + 1]
    /\ rver' = [rver EXCEPT ![i] = clock + 1]
    /\ RemoteChanged

\* comment c of issue i is edited; the issue's own updated_at moves or not
EditComment(i, c, bump) ==
    /\ pc = "idle"
    /\ clock < MaxVer
    /\ rcom[i][c] > 0
    /\ clock' = clock + 1
    /\ rcom' = [rcom EXCEPT ![i][c] = clock + 1]
    /\ rver' = IF bump THEN [rver EXCEPT ![i] = clock + 1] ELSE rver
    /\ RemoteChanged

\* comment c of issue i is deleted; the issue's own updated_at moves or not
DeleteComment(i, c, bump) ==
    /\ pc = "idle"
    /\ rcom[i][c] > 0
    /\ bump => clock < MaxVer
    /\ clock' = IF bump THEN clock + 1 ELSE clock
    /\ rcom' = [rcom EXCEPT ![i][c] = Deleted]
    /\ rver' = IF bump THEN [rver EXCEPT ![i] = clock + 1] ELSE rver
    /\ RemoteChanged

(***************************************************************************)
(* The program: runs of the command against the changing remote.            *)
(***************************************************************************)
\* a mirror without any file
EmptyFiles == [p \in {} |-> None]

\* a mirror that an earlier version of the command, one that cleaned
\* nothing, wrote when issue 1 and its comment 1 were at version 1
LegacyFiles ==
    Put(Put(EmptyFiles, IssueJSONFile(1),
            FileBytes([type |-> "Issue", val |-> RawIssue(1, 1, 1)]), 1),
        IssueCommentFile(1, 1),
        FileBytes([type |-> "IssueComment", val |-> RawComment(1, 1)]), 1)

\* the directories that hold the files of fs
DirsOf(fs) ==
    {Dir(p) : p \in DOMAIN fs} \cup {Dir(Dir(p)) : p \in DOMAIN fs}
        \cup (IF DOMAIN fs = {} THEN {} ELSE {IssuesDir})

\* the process is not running
Idle ==
    /\ reclean = FALSE
    /\ page = 0 /\ keepGoing = FALSE /\ issues = << >> /\ idx = 0
    /\ nums = << >> /\ nidx = 0 /\ is = None /\ ids = << >> /\ cidx = 0
    /\ cpage = 0 /\ comments = << >> /\ ccidx = 0 /\ nextPage = 0
    /\ w = WIdle /\ ret = None
    /\ exit = "none"
    /\ requested = << >> /\ listCalls = {} /\ counted = << >>
    /\ stable = "none" /\ aborted = FALSE

\* neither the Normalizer nor an iteration of the store is run on its own
NoHarness == norm = None /\ calls = << >> /\ result = None

\* the remote holds issue 1 with its comment 1, both at version 1; the
\* mirror is empty or the legacy mirror of that remote
Init ==
    /\ clock = 1
    /\ rver = [i \in Issues |-> IF i = 1 THEN 1 ELSE 0]
    /\ rcom = [i \in Issues |-> [c \in CommentIDs |-> IF i = 1 /\ c = 1 THEN 1 ELSE 0]]
    /\ files \in {EmptyFiles, LegacyFiles}
    /\ dirs = DirsOf(files)
    /\ run0 = files
    /\ rundirs0 = DirsOf(files)
    /\ walk0 = files
    /\ intact = (files = EmptyFiles)
    /\ pc = "idle"
    /\ Idle
    /\ NoHarness

Next ==
    \/ \E rc \in BOOLEAN : StartRun(rc)
    \/ ListPage
    \/ WriteIssue
    \/ IssueWritten
    \/ StartWalk
    \/ ForeachDone
    \/ LoadIssue
    \/ RecleanIssueWritten
    \/ RecleanComment
    \/ RecleanCommentWritten
    \/ Reconcile
    \/ ListCommentsPage
    \/ WriteComment
    \/ CommentWritten
    \/ WriteFileOpen
    \/ WriteFileWrite
    \/ Chtimes
    \/ Crash
    \/ \E i \in Issues : TouchIssue(i)
    \/ \E i \in Issues, c \in CommentIDs : AddComment(i, c)
    \/ \E i \in Issues, c \in CommentIDs, bump \in BOOLEAN : EditComment(i, c, bump)
    \/ \E i \in Issues, c \in CommentIDs, bump \in BOOLEAN : DeleteComment(i, c, bump)

Spec == Init /\ [][Next]_vars

(***************************************************************************)
(* The program on a mirror that holds an issue stored without a comment     *)
(* count, next to one stored with it.                                       *)
(***************************************************************************)
\* a mirror that holds, all uncleaned: issue 1 at version 1 without the
\* "comments" key, its comment 1 at version 1, and issue 2 at version 2 with
\* a comment count of 0
NoCountFiles ==
    Put(Put(Put(EmptyFiles, IssueJSONFile(1),
                FileBytes([type |-> "Issue",
                           val |-> [RawIssue(1, 1, 1) EXCEPT !.Comments = {}]]), 1),
            IssueCommentFile(1, 1),
            FileBytes([type |-> "IssueComment", val |-> RawComment(1, 1)]), 1),
        IssueJSONFile(2),
        FileBytes([type |-> "Issue", val |-> RawIssue(2, 2, 0)]), 2)

\* the remote holds issue 1 with its comment 1 at version 1 and issue 2 at
\* version 2: the versions of the mirror's files
InitR ==
    /\ clock = 2
    /\ rver = [i \in Issues |-> IF i = 1 THEN 1 ELSE IF i = 2 THEN 2 ELSE 0]
    /\ rcom = [i \in Issues |-> [c \in CommentIDs |-> IF i = 1 /\ c = 1 THEN 1 ELSE 0]]
    /\ files = NoCountFiles
    /\ dirs = DirsOf(files)
    /\ run0 = files
    /\ rundirs0 = DirsOf(files)
    /\ walk0 = files
    /\ intact = FALSE
    /\ pc = "idle"
    /\ Idle
    /\ NoHarness

SpecR == InitR /\ [][Next]_vars

(***************************************************************************)
(* writeDiskJSON on its own: any call, on any of these files, with the zero *)
(* time or a version, and with a value cleaned or not.                      *)
(***************************************************************************)
HarnessCalls ==
    {[file |-> IssueJSONFile(1), v |-> [type |-> "Issue", val |-> x]] :
        x \in {RawIssue(1, 1, 1), cleanIssue(RawIssue(1, 1, 1)).v,
                cleanIssue(RawIssue(1, 2, 0)).v}}
    \cup
    {[file |-> IssueCommentFile(1, 1), v |-> [type |-> "IssueComment", val |-> x]] :
        x \in {RawComment(1, 1), cleanComment(RawComment(1, 2)).v}}

InitW ==
    /\ clock = 1
    /\ rver = [i \in Issues |-> IF i = 1 THEN 1 ELSE 0]
    /\ rcom = [i \in Issues |-> [c \in CommentIDs |-> IF i = 1 /\ c = 1 THEN 1 ELSE 0]]
    /\ files \in {EmptyFiles, LegacyFiles}
    /\ dirs = DirsOf(files)
    /\ run0 = files
    /\ rundirs0 = DirsOf(files)
    /\ walk0 = files
    /\ intact = (files = EmptyFiles)
    /\ pc = "harness"
    /\ Idle
    /\ NoHarness

\* writeDiskJSON is called
CallW ==
    /\ pc = "harness"
    /\ w = WIdle
    /\ ret = None
    /\ \E call \in HarnessCalls, modTime \in 0..MaxVer :
          writeDiskJSON(call.file, modTime, call.v)
    /\ UNCHANGED <<remoteVars, pc, reclean, pageVars, walkVars, updVars, histVars,
                   endVars, harnessVars>>

\* the caller takes the result
ReturnW ==
    /\ pc = "harness"
    /\ ret # None
    /\ ret' = None
    /\ UNCHANGED <<remoteVars, diskVars, pc, reclean, pageVars, walkVars, updVars,
                   w, histVars, endVars, harnessVars>>

NextW ==
    \/ CallW
    \/ ReturnW
    \/ WriteFileOpen
    \/ WriteFileWrite
    \/ Chtimes

SpecW == InitW /\ [][NextW]_vars

(***************************************************************************)
(* The Normalizer on its own: cleanIssue or cleanComment applied to a       *)
(* record, and applied again to what the first application left.            *)
(***************************************************************************)
\* cleanUser's output on the API's user
CleanUser == Val(cleanUser({RawUser}).v)

\* reaction summaries: none; no reaction at all; one +1, with and without
\* the URL, with and without its zero counters; one +1 and no total
ReactionsInputs ==
    {{}, {NoReactions}, {RawReactions}, {cleanReactions(RawReactions).v},
     {[RawReactions EXCEPT !.URL = {}]}, {[RawReactions EXCEPT !.TotalCount = {}]}}

UserInputs == {{}, {RawUser}, {CleanUser}}

\* assignees lists of length 0, 1 and 2
AssigneesInputs ==
    {<< >>, <<RawUser>>, <<CleanUser>>, <<RawUser, RawUser>>, <<CleanUser, CleanUser>>}

IssueInputs ==
    {[base EXCEPT !.Reactions = r, !.User = u, !.Assignees = a] :
        base \in {RawIssue(1, 1, 1), cleanIssue(RawIssue(1, 1, 1)).v},
        r \in ReactionsInputs, u \in UserInputs, a \in AssigneesInputs}

CommentInputs ==
    {[base EXCEPT !.Reactions = r, !.User = u] :
        base \in {RawComment(1, 1), cleanComment(RawComment(1, 1)).v},
        r \in ReactionsInputs, u \in UserInputs}

\* the Normalizer on a record of either type
Normalizer(v) == IF v.type = "Issue" THEN cleanIssue(v.val) ELSE cleanComment(v.val)

InitN ==
    /\ clock = 1
    /\ rver = [i \in Issues |-> IF i = 1 THEN 1 ELSE 0]
    /\ rcom = [i \in Issues |-> [c \in CommentIDs |-> IF i = 1 /\ c = 1 THEN 1 ELSE 0]]
    /\ files = EmptyFiles
    /\ dirs = DirsOf(files)
    /\ run0 = files
    /\ rundirs0 = DirsOf(files)
    /\ walk0 = files
    /\ intact = TRUE
    /\ pc = "normalizer"
    /\ Idle
    /\ \E v \in {[type |-> "Issue", val |-> x] : x \in IssueInputs}
               \cup {[type |-> "IssueComment", val |-> x] : x \in CommentInputs} :
          norm = [rec |-> v, once |-> None, twice |-> None]
    /\ calls = << >>
    /\ result = None

\* the Normalizer is applied to the record
Normalize ==
    /\ pc = "normalizer"
    /\ norm.once = None
    /\ norm' = [norm EXCEPT !.once = Normalizer(norm.rec)]
    /\ UNCHANGED <<remoteVars, diskVars, pc, reclean, pageVars, walkVars, updVars,
                   w, ret, histVars, endVars, calls, result>>

\* the Normalizer is applied to the record it has left
NormalizeAgain ==
    /\ pc = "normalizer"
    /\ norm.once # None
    /\ norm.twice = None
    /\ norm' = [norm EXCEPT
                  !.twice = Normalizer([type |-> norm.rec.type, val |-> norm.once.v])]
    /\ UNCHANGED <<remoteVars, diskVars, pc, reclean, pageVars, walkVars, updVars,
                   w, ret, histVars, endVars, calls, result>>

NextN ==
    \/ Normalize
    \/ NormalizeAgain

SpecN == InitN /\ [][NextN]_vars

(***************************************************************************)
(* The Record Store's iterations on their own: ForeachIssue and             *)
(* ForeachIssueComment with a callback that returns nil or an error as it   *)
(* pleases, on a mirror directory that holds the program's files, sound or  *)
(* not decodable, and files and directories that are not the program's.     *)
(***************************************************************************)
\* the program's files of these stores
ProgramPaths ==
    {IssueJSONFile(i) : i \in Issues} \cup {IssueCommentFile(1, c) : c \in 1..StoreIDs}

ForeignPaths ==
    {ForeignFile(1, "x"), BadCommentFile(1, "x"), BadJSONFile(1, "x"),
     StrayJSONFile(1, "x", 2)}

\* directories without a file: the comments directory of issue 1, and a
\* subdirectory of it
ExtraDirs == {IssueCommentsDir(1), CommentsSubdir(1, "x")}

\* what the program has written at p
SoundBytes(p) ==
    IF "comment" \in DOMAIN p
    THEN FileBytes([type |-> "IssueComment",
                    val |-> cleanComment(RawComment(p.comment, 1)).v])
    ELSE FileBytes([type |-> "Issue", val |-> cleanIssue(RawIssue(p.json, 1, 1)).v])

\* the files S, those of E not decodable
StoreOf(S, E) ==
    [p \in S |-> [bytes |-> IF p \in E \/ p \notin ProgramPaths
                            THEN EmptyBytes ELSE SoundBytes(p),
                  mtime |-> 1]]

Stores ==
    UNION {{StoreOf(S, E) : E \in SUBSET (S \cap ProgramPaths)} :
              S \in SUBSET (ProgramPaths \cup ForeignPaths)}

\* the directories D and those above them
WithParents(D) == UNION {{d, Dir(d), Dir(Dir(d)), IssuesDir} : d \in D}

\* an iteration op of the store, on issue issueNum for ForeachIssueComment,
\* and how far it is: done or not, and its result (err: "nil", or the error
\* of the walk "walk", of a load "load", of the callback "fn")
Iteration(op, issueNum, done, err) ==
    [op |-> op, issueNum |-> issueNum, done |-> done, err |-> err]

InitS ==
    /\ clock = 1
    /\ rver = [i \in Issues |-> IF i = 1 THEN 1 ELSE 0]
    /\ rcom = [i \in Issues |-> [c \in CommentIDs |-> IF i = 1 /\ c = 1 THEN 1 ELSE 0]]
    /\ files \in Stores
    /\ \E D \in SUBSET ExtraDirs : dirs = DirsOf(files) \cup WithParents(D)
    /\ run0 = files
    /\ rundirs0 = dirs
    /\ walk0 = files
    /\ intact = FALSE
    /\ pc = "store"
    /\ Idle
    /\ norm = None
    /\ calls = << >>
    /\ result = None

\* ForeachIssue is called (issuemirror.go, lines 95-123): the walk, the sort
ForeachIssue ==
    /\ pc = "store"
    /\ IF WalkIssues(files, dirs).err
       THEN /\ result' = Iteration("ForeachIssue", 0, TRUE, "walk")
            /\ pc' = "done"
            /\ UNCHANGED nums
       ELSE /\ result' = Iteration("ForeachIssue", 0, FALSE, "nil")
            /\ pc' = "issues"
            /\ nums' = WalkIssues(files, dirs).nums
    /\ nidx' = 1
    /\ UNCHANGED <<remoteVars, diskVars, reclean, pageVars, is, ids, cidx, updVars,
                   w, ret, histVars, endVars, norm, calls>>

\* lines 124-132: the next issue is loaded and handed to fn, which returns
\* nil or an error
ForeachIssueNext ==
    /\ pc = "issues"
    /\ nidx <= Len(nums)
    /\ IF Issue(files, nums[nidx]).err
       THEN /\ result' = [result EXCEPT !.done = TRUE, !.err = "load"]
            /\ pc' = "done"
            /\ UNCHANGED <<calls, nidx>>
       ELSE \E err \in BOOLEAN :
               /\ calls' = Append(calls, [id |-> nums[nidx], err |-> err])
               /\ IF err
                  THEN /\ result' = [result EXCEPT !.done = TRUE, !.err = "fn"]
                       /\ pc' = "done"
                       /\ nidx' = nidx
                  ELSE /\ nidx' = nidx + 1
                       /\ UNCHANGED <<result, pc>>
    /\ UNCHANGED <<remoteVars, diskVars, reclean, pageVars, nums, is, ids, cidx,
                   updVars, w, ret, histVars, endVars, norm>>

\* line 133
ForeachIssueReturn ==
    /\ pc = "issues"
    /\ nidx > Len(nums)
    /\ result' = [result EXCEPT !.done = TRUE]
    /\ pc' = "done"
    /\ UNCHANGED <<remoteVars, diskVars, reclean, pageVars, walkVars, updVars,
                   w, ret, histVars, endVars, norm, calls>>

\* ForeachIssueComment is called (lines 139-170): the walk, the sort
ForeachIssueComment(issueNum) ==
    /\ pc = "store"
    /\ IF WalkComments(files, dirs, issueNum).err
       THEN /\ result' = Iteration("ForeachIssueComment", issueNum, TRUE, "walk")
            /\ pc' = "done"
            /\ UNCHANGED ids
       ELSE /\ result' = Iteration("ForeachIssueComment", issueNum, FALSE, "nil")
            /\ pc' = "children"
            /\ ids' = WalkComments(files, dirs, issueNum).ids
    /\ cidx' = 1
    /\ UNCHANGED <<remoteVars, diskVars, reclean, pageVars, nums, nidx, is, updVars,
                   w, ret, histVars, endVars, norm, calls>>

\* lines 171-179: the next comment is loaded and handed to fn
ForeachIssueCommentNext ==
    /\ pc = "children"
    /\ cidx <= Len(ids)
    /\ IF IssueComment(files, result.issueNum, ids[cidx]).err
       THEN /\ result' = [result EXCEPT !.done = TRUE, !.err = "load"]
            /\ pc' = "done"
            /\ UNCHANGED <<calls, cidx>>
       ELSE \E err \in BOOLEAN :
               /\ calls' = Append(calls, [id |-> ids[cidx], err |-> err])
               /\ IF err
                  THEN /\ result' = [result EXCEPT !.done = TRUE, !.err = "fn"]
                       /\ pc' = "done"
                       /\ cidx' = cidx
                  ELSE /\ cidx' = cidx + 1
                       /\ UNCHANGED <<result, pc>>
    /\ UNCHANGED <<remoteVars, diskVars, reclean, pageVars, nums, nidx, is, ids,
                   updVars, w, ret, histVars, endVars, norm>>

\* line 180
ForeachIssueCommentReturn ==
    /\ pc = "children"
    /\ cidx > Len(ids)
    /\ result' = [result EXCEPT !.done = TRUE]
    /\ pc' = "done"
    /\ UNCHANGED <<remoteVars, diskVars, reclean, pageVars, walkVars, updVars,
                   w, ret, histVars, endVars, norm, calls>>

NextS ==
    \/ ForeachIssue
    \/ ForeachIssueNext
    \/ ForeachIssueReturn
    \/ \E i \in Issues : ForeachIssueComment(i)
    \/ ForeachIssueCommentNext
    \/ ForeachIssueCommentReturn

SpecS == InitS /\ [][NextS]_vars

(***************************************************************************)
(* Properties.                                                              *)
(***************************************************************************)
Running == pc \notin {"idle", "harness"}

\* the state of file f in fs: [bytes, mtime], or None when there is no file
FileState(fs, f) == IF f \in DOMAIN fs THEN fs[f] ELSE None

\* the bytes the specification asks for: the indented encoding of v, ending
\* in a newline
Serialization(v) == [json |-> MarshalIndent(v).json, nl |-> TRUE]

\* the value a file's bytes decode to, for a value of v's type
Decoded(b, v) ==
    IF v.type = "Issue" THEN UnmarshalIssue(b.json) ELSE UnmarshalComment(b.json)

\* C1.  Idempotence of a full run: in a run started after a run of the same
\* mode (or a -reclean run) has completed against the remote as it still
\* is, no call of writeDiskJSON writes: none is past its early returns, any
\* that has returned reports wrote = false, and every file and directory is
\* as it was when the run started.
C1_Idempotent ==
    (Running /\ (stable = "reclean" \/ (stable = "sync" /\ ~reclean)))
        => /\ w = WIdle
           /\ ret # None => ~ret.wrote
           /\ files = run0
           /\ dirs = rundirs0

\* a second run, in its page loop, back from a writeDiskJSON call that found
\* an issue up to date
C1_Witness ==
    /\ stable = "sync"
    /\ ~reclean
    /\ pc = "wrote"
    /\ ret # None
    /\ ~ret.wrote

\* every issue of the remote is on disk, stamped with its remote version
ParentsSynced ==
    \A i \in RemoteIssues :
        /\ IssueJSONFile(i) \in DOMAIN files
        /\ files[IssueJSONFile(i)].mtime = rver[i]

\* C2.  Resumption after an aborted run: when a run was aborted and a later
\* run against the same remote has completed, every issue of the remote is
\* on disk with a modification time equal to its remote version.
C2_ResumeSyncs ==
    (pc = "idle" /\ exit = "ok" /\ aborted) => ParentsSynced

\* the number of pages of the issue feed that hold an issue
NumPages == (Len(Feed) + PerPage - 1) \div PerPage

\* writeDiskJSON writes issue i when handed its remote version, on files fs
CausesWrite(fs, i) ==
    ~(IssueJSONFile(i) \in DOMAIN fs /\ fs[IssueJSONFile(i)].mtime = rver[i])

PageHasWrite(fs, p) ==
    \E k \in DOMAIN ListByRepo(p) : CausesWrite(fs, ListByRepo(p)[k])

\* when the run started, exactly the first k pages of the feed held a record
\* that causes a write
ChangedPrefix(k) ==
    /\ \A p \in 1..k : PageHasWrite(run0, p)
    /\ \A p \in (k + 1)..NumPages : ~PageHasWrite(run0, p)

\* the page loop of the run is over
PagingDone ==
    \/ pc \in {"foreach", "recleaned", "comments", "ccleaned", "count", "listc",
                "comment", "cwrote"}
    \/ pc = "list" /\ ~keepGoing
    \/ pc = "idle" /\ exit = "ok"

UpTo(n) == [p \in 1..n |-> p]

\* C3.  Stopping heuristic: when exactly the first k of the feed's N pages
\* hold a record that causes a write, the page loop asks for pages
\* 1, 2, ..., k+1 in this order and for no other page.
C3_Stopping ==
    \A k \in 0..NumPages :
        ((Running \/ exit = "ok") /\ ChangedPrefix(k))
            => /\ Len(requested) <= k + 1
               /\ requested = UpTo(Len(requested))
               /\ PagingDone => requested = UpTo(k + 1)

\* a feed of two pages, nothing to write: the loop ended after page 1
C3_Witness ==
    /\ pc = "foreach"
    /\ NumPages = 2
    /\ ChangedPrefix(0)
    /\ requested = <<1>>

\* C4.  Write atomicity: at every point of a writeDiskJSON call at which the
\* process can stop, the target file is either as the call found it, or holds
\* the new bytes with the timestamp the call is to give it.
C4_Atomic ==
    w # WIdle
        => FileState(files, w.file) \in
               {FileState(w.files0, w.file), [bytes |-> w.j, mtime |-> w.modTime]}

\* C5.  Version invariant: when a writeDiskJSON call with a non-zero version
\* has returned without error, the file exists and its modification time is
\* that version, and when the call wrote, the file's bytes are the
\* serialization of the value passed in and decode to it; and in a mirror
\* that started empty and saw only completed writes, every file (but one a
\* call is writing) is stamped with the version its content was written at,
\* which is the content's own updated_at.
C5_Version ==
    /\ (ret # None /\ ~IsZero(ret.modTime) /\ ~ret.err)
            => /\ ret.file \in DOMAIN files
               /\ files[ret.file].mtime = ret.modTime
               /\ ret.wrote =>
                     /\ files[ret.file].bytes = Serialization(ret.v)
                     /\ Decoded(files[ret.file].bytes, ret.v) = ret.v.val
    /\ intact =>
          \A f \in DOMAIN files :
              \/ w # WIdle /\ w.file = f
              \/ /\ files[f].bytes # EmptyBytes
                 /\ files[f].mtime = files[f].bytes.json.UpdatedAt

\* a call with a version has written a file of a mirror that saw only
\* completed writes, over a file of an older version
C5_Witness ==
    /\ intact
    /\ ret # None
    /\ ret.wrote
    /\ ~IsZero(ret.modTime)
    /\ ret.file \in DOMAIN ret.files0

\* C6.  Preserve-on-renormalize: when a writeDiskJSON call with the zero time
\* has written, the file was there before, its modification time is the one
\* it had before the call, and every other file is as it was: same files,
\* same bytes, same times.
C6_Preserve ==
    (ret # None /\ IsZero(ret.modTime) /\ ret.wrote)
        => /\ ret.file \in DOMAIN ret.files0
           /\ files[ret.file].mtime = ret.files0[ret.file].mtime
           /\ DOMAIN files = DOMAIN ret.files0
           /\ \A f \in DOMAIN files \ {ret.file} : files[f] = ret.files0[f]

\* the -reclean pass is back from a rewrite that changed a file's bytes
C6_Witness ==
    /\ pc \in {"recleaned", "ccleaned"}
    /\ ret # None
    /\ IsZero(ret.modTime)
    /\ ret.wrote
    /\ files[ret.file].bytes # ret.files0[ret.file].bytes

\* the comment files of issue i in fs, each with its bytes and time
ChildState(fs, i) == [p \in CommentNames(fs, i) |-> fs[p]]

\* when the run counted the comments of issue i, the stored issue declared
\* as many comments as its directory held
CountsAgreed(i) ==
    LET r == Issue(counted[i].files, i)
        n == NumComments(counted[i].files, counted[i].dirs, i)
    IN /\ ~r.err
       /\ r.is.Comments # {}
       /\ ~n.err
       /\ n.n = Val(r.is.Comments)

\* C7.  Reconciliation skip: for every stored issue whose directory held as
\* many comments as its stored record declares when the run counted them,
\* the run has listed no page of the issue's comments, and the issue's
\* comment files are the same files with the same bytes and times as at
\* that moment.
C7_Skip ==
    \A i \in DOMAIN counted :
        CountsAgreed(i)
            => /\ \A call \in listCalls : call[1] # i
               /\ ChildState(files, i) = ChildState(counted[i].files, i)

\* the walk has gone past an issue whose one declared comment was on disk
C7_Witness ==
    /\ pc = "foreach"
    /\ \E i \in DOMAIN counted :
          /\ CountsAgreed(i)
          /\ CommentNames(files, i) # {}

\* C8.  Fetch only what changed: a run started after a run has completed
\* against the remote as it still is asks for the first page of the issue
\* feed and for nothing else: no other page, and no page of any issue's
\* comments.
C8_FetchOnlyChanged ==
    (Running /\ stable # "none")
        => /\ requested \in {<< >>, <<1>>}
           /\ listCalls = {}

\* C9.  No-op branch: a writeDiskJSON call with a non-zero version, on a file
\* whose modification time is that version, goes no further than its early
\* return, reports wrote = false and no error, and leaves every file and
\* directory as it was, whatever the value passed in.
C9_NoOp ==
    /\ (/\ ret # None
        /\ ~IsZero(ret.modTime)
        /\ ret.file \in DOMAIN ret.files0
        /\ ret.files0[ret.file].mtime = ret.modTime)
            => /\ ~ret.wrote
               /\ ~ret.err
               /\ files = ret.files0
               /\ dirs = ret.dirs0
    /\ (w # WIdle /\ ~IsZero(w.arg) /\ w.file \in DOMAIN w.files0)
            => w.files0[w.file].mtime # w.arg

\* the call was handed a value whose encoding is not what the file holds
C9_Witness ==
    /\ ret # None
    /\ ~IsZero(ret.modTime)
    /\ ret.file \in DOMAIN ret.files0
    /\ ret.files0[ret.file].mtime = ret.modTime
    /\ ret.files0[ret.file].bytes # Serialization(ret.v)
    /\ ~ret.wrote

\* C10.  Zero-time write of a missing file: a writeDiskJSON call with the
\* zero time on a file that does not exist returns an error and
\* wrote = false, goes no further than that return, and leaves the files and
\* the directories as they were: no file and no directory is created.
C10_ZeroMissing ==
    /\ (ret # None /\ IsZero(ret.modTime) /\ ret.file \notin DOMAIN ret.files0)
            => /\ ret.err
               /\ ~ret.wrote
               /\ files = ret.files0
               /\ dirs = ret.dirs0
    /\ (w # WIdle /\ IsZero(w.arg)) => w.file \in DOMAIN w.files0

\* the call failed on a file whose directory does not exist either
C10_Witness ==
    /\ ret # None
    /\ IsZero(ret.modTime)
    /\ ret.file \notin DOMAIN ret.files0
    /\ Dir(ret.file) \notin ret.dirs0
    /\ ret.err

\* C11.  Accurate changed verdict: the Normalizer returns cleaned = true
\* exactly when the record it leaves differs from the record it was handed.
C11_Verdict ==
    (norm # None /\ norm.once # None)
        => (norm.once.cleaned <=> norm.once.v # norm.rec.val)

\* C12.  Normalizer fixed point: applied to the record that a first
\* application has left, the Normalizer leaves that record as it is and
\* returns cleaned = false.
C12_FixedPoint ==
    (norm # None /\ norm.twice # None)
        => /\ norm.twice.v = norm.once.v
           /\ ~norm.twice.cleaned

\* the Normalizer ran twice on an issue with two uncleaned assignees and a
\* reaction summary with a total, a URL and zero counters, which the first
\* application reported as changed
C12_Witness ==
    /\ norm # None
    /\ norm.twice # None
    /\ norm.once.cleaned
    /\ norm.rec.type = "Issue"
    /\ norm.rec.val.Assignees = <<RawUser, RawUser>>
    /\ norm.rec.val.Reactions = {RawReactions}

\* the stored issues, of those ForeachIssue loads, that the Normalizer
\* reports as changed
UncleanIssues(fs, ds) ==
    {i \in Issues :
        /\ \E k \in DOMAIN WalkIssues(fs, ds).nums : WalkIssues(fs, ds).nums[k] = i
        /\ ~Issue(fs, i).err
        /\ cleanIssue(Issue(fs, i).is).cleaned}

\* the stored comments of stored issues, of those ForeachIssueComment loads,
\* that the Normalizer reports as changed
UncleanComments(fs, ds) ==
    {ic \in Issues \X CommentIDs :
        /\ \E k \in DOMAIN WalkIssues(fs, ds).nums : WalkIssues(fs, ds).nums[k] = ic[1]
        /\ \E k \in DOMAIN WalkComments(fs, ds, ic[1]).ids :
              WalkComments(fs, ds, ic[1]).ids[k] = ic[2]
        /\ ~IssueComment(fs, ic[1], ic[2]).err
        /\ cleanComment(IssueComment(fs, ic[1], ic[2]).c).cleaned}

\* C13.  Re-normalize coverage: when a -reclean run has completed, every
\* stored issue and every stored comment of a stored issue has been through
\* the Normalizer and, where it reported a change, has been rewritten: no
\* stored record is left that the Normalizer reports as changed.
C13_Coverage ==
    (pc = "idle" /\ exit = "ok" /\ stable = "reclean")
        => /\ UncleanIssues(files, dirs) = {}
           /\ UncleanComments(files, dirs) = {}

\* an iteration of the store has returned
IterationReturned(op) == result # None /\ result.op = op /\ result.done

\* C14.  countChildren agrees with enumerateChildren: when the comments
\* directory of an issue exists and ForeachIssueComment has run through it
\* with a callback that never failed, it has passed as many ids to the
\* callback as NumComments returns for the issue.
C14_CountAgrees ==
    (/\ IterationReturned("ForeachIssueComment")
     /\ result.err = "nil"
     /\ IssueCommentsDir(result.issueNum) \in dirs)
        => /\ ~NumComments(files, dirs, result.issueNum).err
           /\ NumComments(files, dirs, result.issueNum).n = Len(calls)

\* the files of the comments directory of issueNum that are not named
\* comment-<numeric id>.json
Foreign(fs, issueNum) ==
    {p \in CommentNames(fs, issueNum) : "comment" \notin DOMAIN p}

\* C15.  enumerateChildren rejects foreign files: when the comments
\* directory of an issue holds a file that is not named
\* comment-<numeric id>.json, ForeachIssueComment returns an error.
C15_RejectsForeign ==
    (IterationReturned("ForeachIssueComment") /\ Foreign(files, result.issueNum) # {})
        => result.err # "nil"

\* C16.  enumerateParents rejects unexpected depth: when a shard directory
\* holds a directory that is not the comments directory of an issue,
\* ForeachIssue returns an error.
C16_RejectsDepth ==
    (IterationReturned("ForeachIssue") /\ \E d \in dirs : DOMAIN d = {"shard", "stray"})
        => result.err # "nil"

\* the identities of the records that an iteration is to hand to its
\* callback: the numbers of the <num>.json files of the shard directories,
\* or the ids of the comment-<id>.json files of the issue's comments
\* directory
StoredIDs(it) ==
    IF it.op = "ForeachIssue"
    THEN {p.json : p \in {q \in DOMAIN files : DOMAIN q = {"shard", "json"}}}
    ELSE {p.comment : p \in {q \in DOMAIN files :
                                /\ DOMAIN q = {"shard", "comments", "comment"}
                                /\ q.comments = it.issueNum}}

\* C17.  Ordered, fail-fast iteration: ForeachIssue and ForeachIssueComment
\* hand stored records to the callback in strictly ascending order of
\* identity, each at most once and, when the iteration returns nil, each
\* exactly once; a call that returned an error is the last call, the
\* iteration has returned and its result is that error; after an error of a
\* load the iteration has returned that error, having called back only for
\* identities below the one that failed to load.
C17_OrderedFailFast ==
    result # None =>
        /\ \A k \in 1..(Len(calls) - 1) :
              calls[k].id < calls[k + 1].id /\ ~calls[k].err
        /\ \A k \in DOMAIN calls : calls[k].id \in StoredIDs(result)
        /\ (Len(calls) > 0 /\ calls[Len(calls)].err)
              => (result.done /\ result.err = "fn")
        /\ result.err = "fn" => (Len(calls) > 0 /\ calls[Len(calls)].err)
        /\ result.err # "nil" => result.done
        /\ (result.done /\ result.err = "nil")
              => {calls[k].id : k \in DOMAIN calls} = StoredIDs(result)
        /\ result.err = "load"
              => \E n \in StoredIDs(result) :
                    /\ \A k \in DOMAIN calls : calls[k].id < n
                    /\ {calls[k].id : k \in DOMAIN calls}
                          = {m \in StoredIDs(result) : m < n}

\* an iteration over two stored records has ended in the error that the
\* callback returned for the second
C17_Witness ==
    /\ result # None
    /\ result.done
    /\ result.err = "fn"
    /\ Len(calls) = 2
    /\ calls[2].err
    /\ Cardinality(StoredIDs(result)) = 2

\* C18.  Parent convergence: in a mirror that started empty and has seen
\* only completed runs, after each completed run every issue of the remote
\* is on disk with a modification time equal to its remote version.
C18_ParentsConverge ==
    (pc = "idle" /\ exit = "ok" /\ intact) => ParentsSynced

\* a completed run of such a mirror has stopped at the second of two pages:
\* the first held an issue to write, the second an issue that an earlier run
\* had written
C18_Witness ==
    /\ pc = "idle"
    /\ exit = "ok"
    /\ intact
    /\ Cardinality(RemoteIssues) = 2
    /\ requested = <<1, 2>>
    /\ ParentsSynced

\* every comment that the remote holds for a stored issue is on disk,
\* stamped with its remote version
ChildrenSynced ==
    \A i \in RemoteIssues :
        IssueJSONFile(i) \in DOMAIN files
            => \A c \in RemoteComments(i) :
                  /\ IssueCommentFile(i, c) \in DOMAIN files
                  /\ files[IssueCommentFile(i, c)].mtime = rcom[i][c]

\* C19.  Child convergence: in a mirror that started empty and has seen only
\* completed runs, after each completed run every comment that the remote
\* holds for a stored issue is on disk with a modification time equal to the
\* comment's remote version.
C19_ChildrenConverge ==
    (pc = "idle" /\ exit = "ok" /\ intact) => ChildrenSynced

\* the file is missing, or its modification time is not modTime
Stale(fs, file, modTime) == file \notin DOMAIN fs \/ fs[file].mtime # modTime

\* C20.  Staleness is inequality: a writeDiskJSON call with a non-zero
\* version goes past its early returns exactly when the file is missing or
\* its modification time differs from the version, older or newer; it then
\* returns wrote = true with the file stamped with the version, and else
\* wrote = false, in both cases without error; and in the page loop a call
\* that returned wrote = true makes the loop go on to the next page.
C20_Inequality ==
    /\ [](/\ (ret # None /\ ~IsZero(ret.modTime))
                => /\ ~ret.err
                   /\ ret.wrote <=> Stale(ret.files0, ret.file, ret.modTime)
                   /\ ret.wrote => files[ret.file].mtime = ret.modTime
          /\ (w # WIdle /\ ~IsZero(w.arg)) => Stale(w.files0, w.file, w.arg))
    /\ [][(pc = "wrote" /\ ret # None /\ ret.wrote /\ pc' \in {"page", "list"})
              => keepGoing']_vars

\* the page loop is back from a call that wrote a version older than the
\* time the file was stamped with
C20_Witness ==
    /\ pc = "wrote"
    /\ ret # None
    /\ ret.wrote
    /\ ~IsZero(ret.modTime)
    /\ ret.file \in DOMAIN ret.files0
    /\ ret.files0[ret.file].mtime > ret.modTime

====
